---- MODULE Spec2Model ----
(***************************************************************************)
(* A model of the edgestore react client (createNextProxy.ts, the variant  *)
(* with multipart support): the bounded task scheduler queuedPromises, the *)
(* upload session uploadFile / multipartUpload, and the admission gate of  *)
(* upload().                                                               *)
(*                                                                         *)
(* One action is one JavaScript job: a timer callback, an XHR event or a   *)
(* fetch settlement together with the promise continuations it triggers.   *)
(* Percentages are integers in hundredths (10000 is 100.00).               *)
(***************************************************************************)
EXTENDS Integers, Sequences, FiniteSets, TLC

VARIABLES
    \* ---- one call of queuedPromises ----
    items,          \* the items argument
    maxParallel,    \* the maxParallel argument
    maxRetries,     \* the maxRetries argument
    semCount,       \* semaphore.count
    status,         \* per task: waiting | running | backoff | done | failed
    retries,        \* per task: the retries argument of its executeWithRetry frame
    attempts,       \* per item: how many times fn was invoked with it
    error,          \* per task: the error its last attempt threw
    results,        \* the results array
    callState,      \* the promise queuedPromises returned: idle | pending | resolved | rejected
    rejectReason,   \* the error that promise rejected with
    \* ---- one upload session: uploadFile and multipartUpload ----
    pc,             \* idle | requesting | single | multipart | finalizing | resolved | rejected
    totalParts,     \* multipartInfo.totalParts
    uploadingParts, \* the progress table of multipartUpload
    lastProgress,   \* the last value passed to onProgressChange (-1: not called yet)
    completeCalls,  \* number of POSTs to /complete-multipart-upload
    completedParts, \* the parts payload of that POST
    xhrStatus,      \* single part: the response the transfer ended with: none | 2xx | other
    fileSize,       \* file.size
    partSize,       \* multipartInfo.partSize
    partJobs,       \* per plan part: {part, chunk}, the chunk as byte range [from, to)
    \* ---- the upload() calls sharing one uploadingCountRef ----
    uploadingCount,         \* uploadingCountRef.current
    maxConcurrentUploads,   \* the maxConcurrentUploads argument of createNextProxy
    callPc,                 \* per call: idle | polling | uploading | resolved | rejected
    \* ---- history ----
    settleOrder,    \* scheduler alone: the tasks that settled, in the order they did
    incs,           \* per upload() call: how often it incremented the counter
    decs            \* per upload() call: how often it decremented the counter

queueVars == <<items, maxParallel, maxRetries, semCount, status, retries,
               attempts, error, results, callState, rejectReason>>

fileVars == <<fileSize, partSize, partJobs>>

sessionVars == <<pc, totalParts, uploadingParts, lastProgress, completeCalls,
                 completedParts, xhrStatus, fileVars>>

gateVars == <<uploadingCount, maxConcurrentUploads, callPc, incs, decs>>

vars == <<queueVars, sessionVars, gateVars, settleOrder>>

\* Bounds of the scheduler's inputs.
MaxItems == 3
MaxParallelArg == 2
MaxRetriesArg == 2

\* Bound of the plans the control plane answers with: a plan has
\* totalParts = parts.length parts, numbered 1..totalParts.
MaxParts == 2

\* Bound of the number of upload() calls, and of the limits tried.
NumCalls == 3
MaxLimit == 2

Calls == 1..NumCalls

\* The values of maxConcurrentUploads tried: misconfigured ones and 1..MaxLimit.
Limits == {-1, 0} \cup (1..MaxLimit)

\* The percentages (in hundredths) a transport progress event reports.
ProgressSteps == {10000}

\* Bounds of the files and plans where the slicing is checked alone.
MaxFileSize == 6
MaxPartSize == 3
MaxPlanParts == 3

\* Bound of totalParts where the aggregator is checked alone, and the
\* percentages (in hundredths) the part-progress events report there.
MaxAggParts == 3
Percents == {0, 1, 29, 5000, 10000}

\* multipartUpload: `maxParallel: 5`.
PartsMaxParallel == 5

\* multipartUpload: `maxRetries: 10`.
PartsMaxRetries == 10

\* An array slot nothing was written to.
Empty == [item |-> 0, attempt |-> 0]
NoError == "none"
NoReason == [item |-> 0, attempt |-> 0, kind |-> NoError]

Range(s) == {s[k] : k \in 1..Len(s)}

Tasks == 1..Len(items)

\* ------------------------------------------------------------------------
\* queuedPromises
\* ------------------------------------------------------------------------

SemaphoreOpenNoCheck(count) == count >= 0

\* semaphore.wait: `while (this.count <= 0) await ...` lets a task through
\* only when count > 0.
SemaphoreOpen(count) == count > 0

\* The synchronous part of `items.map(...)`: every task runs up to its first
\* await in index order; a task that finds the semaphore open takes a permit
\* at once, the others start polling.
RECURSIVE SyncStart(_, _, _)
SyncStart(i, n, count) ==
    IF i > n THEN [count |-> count, started |-> {}]
    ELSE IF SemaphoreOpen(count)
         THEN LET r == SyncStart(i + 1, n, count - 1)
              IN  [count |-> r.count, started |-> r.started \cup {i}]
         ELSE SyncStart(i + 1, n, count)

RetryAllowedOffByOne(r) == r > 1

\* executeWithRetry: `if (retries > 0)`.
RetryAllowed(r) == r > 0

RetryDecisionByKind(kind, r) == kind # "NoETag" /\ RetryAllowed(r)

\* executeWithRetry: `catch (error) { if (retries > 0) ...`: the decision to
\* retry does not look at the error that was caught.
RetryDecision(kind, r) == RetryAllowed(r)

WriteResultPush(res, i, v) ==
    LET free == {k \in DOMAIN res : res[k] = Empty}
        first == CHOOSE k \in free : \A m \in free : k <= m
    IN  [res EXCEPT ![first] = v]

\* `results[i] = result`.
WriteResult(res, i, v) == [res EXCEPT ![i] = v]

PromiseAllSettled(st, cs, failed) ==
    IF cs # "pending" THEN cs
    ELSE IF \A k \in DOMAIN st : st[k] \in {"done", "failed"} THEN "resolved"
    ELSE "pending"

\* `await Promise.all(tasks)`: rejects with the first task that rejects,
\* resolves once every task has resolved; a settled promise stays as it is.
PromiseAll(st, cs, failed) ==
    IF cs # "pending" THEN cs
    ELSE IF failed THEN "rejected"
    ELSE IF \A k \in DOMAIN st : st[k] = "done" THEN "resolved"
    ELSE "pending"

\* The call itself: results = new Array(items.length), the semaphore, the
\* tasks started in index order, fn invoked for those that got a permit.
QueuedPromisesCall(its, P, R) ==
    LET n == Len(its)
        s == SyncStart(1, n, P)
        st == [k \in 1..n |-> IF k \in s.started THEN "running" ELSE "waiting"]
    IN  /\ callState = "idle"
        /\ items' = its
        /\ maxParallel' = P
        /\ maxRetries' = R
        /\ semCount' = s.count
        /\ status' = st
        /\ retries' = [k \in 1..n |-> R]
        /\ attempts' = [k \in 1..n |-> IF k \in s.started THEN 1 ELSE 0]
        /\ error' = [k \in 1..n |-> NoError]
        /\ results' = [k \in 1..n |-> Empty]
        /\ callState' = PromiseAll(st, "pending", FALSE)
        /\ rejectReason' = NoReason

TaskAcquireUnlessRejected(i) ==
    /\ status[i] = "waiting"
    /\ callState = "pending"
    /\ SemaphoreOpen(semCount)
    /\ semCount' = semCount - 1
    /\ status' = [status EXCEPT ![i] = "running"]
    /\ attempts' = [attempts EXCEPT ![i] = @ + 1]
    /\ UNCHANGED <<items, maxParallel, maxRetries, retries, error, results,
                   callState, rejectReason>>

\* A polling task wakes up (setTimeout 500), finds the semaphore open, takes
\* a permit and invokes fn for the first time.
TaskAcquire(i) ==
    /\ status[i] = "waiting"
    /\ SemaphoreOpen(semCount)
    /\ semCount' = semCount - 1
    /\ status' = [status EXCEPT ![i] = "running"]
    /\ attempts' = [attempts EXCEPT ![i] = @ + 1]
    /\ UNCHANGED <<items, maxParallel, maxRetries, retries, error, results,
                   callState, rejectReason>>

TaskSucceedNoSignal(i, v) ==
    LET st == [status EXCEPT ![i] = "done"]
    IN  /\ status[i] = "running"
        /\ results' = WriteResult(results, i, v)
        /\ status' = st
        /\ callState' = PromiseAll(st, callState, FALSE)
        /\ UNCHANGED <<items, maxParallel, maxRetries, semCount, retries,
                       attempts, error, rejectReason>>

\* fn resolved with v: results[i] = v, finally semaphore.signal(), the task
\* resolves.
TaskSucceed(i, v) ==
    LET st == [status EXCEPT ![i] = "done"]
    IN  /\ status[i] = "running"
        /\ results' = WriteResult(results, i, v)
        /\ semCount' = semCount + 1
        /\ status' = st
        /\ callState' = PromiseAll(st, callState, FALSE)
        /\ UNCHANGED <<items, maxParallel, maxRetries, retries, attempts,
                       error, rejectReason>>

\* fn rejected with an error of the given kind: with budget left the frame
\* waits 5000 ms; without, the error is rethrown, finally semaphore.signal(),
\* the task rejects.
TaskFail(i, kind) ==
    /\ status[i] = "running"
    /\ error' = [error EXCEPT ![i] = kind]
    /\ IF RetryDecision(kind, retries[i])
       THEN /\ status' = [status EXCEPT ![i] = "backoff"]
            /\ UNCHANGED <<semCount, callState, rejectReason>>
       ELSE LET st == [status EXCEPT ![i] = "failed"]
                cs == PromiseAll(st, callState, TRUE)
            IN  /\ status' = st
                /\ semCount' = semCount + 1
                /\ callState' = cs
                /\ rejectReason' =
                       IF callState = "pending" /\ cs = "rejected"
                       THEN [item |-> items[i], attempt |-> attempts[i], kind |-> kind]
                       ELSE rejectReason
    /\ UNCHANGED <<items, maxParallel, maxRetries, retries, attempts, results>>

TaskRetryReacquire(i) ==
    /\ status[i] = "backoff"
    /\ retries' = [retries EXCEPT ![i] = @ - 1]
    /\ attempts' = [attempts EXCEPT ![i] = @ + 1]
    /\ status' = [status EXCEPT ![i] = "running"]
    /\ error' = [error EXCEPT ![i] = NoError]
    /\ semCount' = semCount - 1
    /\ UNCHANGED <<items, maxParallel, maxRetries, results,
                   callState, rejectReason>>

\* The backoff timer fires: executeWithRetry(func, retries - 1) invokes fn
\* again with the same item.
TaskRetry(i) ==
    /\ status[i] = "backoff"
    /\ retries' = [retries EXCEPT ![i] = @ - 1]
    /\ attempts' = [attempts EXCEPT ![i] = @ + 1]
    /\ status' = [status EXCEPT ![i] = "running"]
    /\ error' = [error EXCEPT ![i] = NoError]
    /\ UNCHANGED <<items, maxParallel, maxRetries, semCount, results,
                   callState, rejectReason>>

\* What a generic work function returns for an item on a given attempt.
FnResult(item, attempt) == [item |-> item, attempt |-> attempt]

QueueIdle ==
    /\ items = <<>>
    /\ maxParallel = 0
    /\ maxRetries = 0
    /\ semCount = 0
    /\ status = <<>>
    /\ retries = <<>>
    /\ attempts = <<>>
    /\ error = <<>>
    /\ results = <<>>
    /\ callState = "idle"
    /\ rejectReason = NoReason

\* ------------------------------------------------------------------------
\* uploadFile, uploadFileInner, multipartUpload
\* ------------------------------------------------------------------------

\* Math.round(a / b) for a >= 0 and b > 0.
Round(a, b) == (2 * a + b) \div (2 * b)

RECURSIVE SumProgress(_)
SumProgress(table) ==
    IF table = <<>> THEN 0
    ELSE Head(table).progress + SumProgress(Tail(table))

UpsertAlwaysPush(table, partNumber, progress) ==
    Append(table, [partNumber |-> partNumber, progress |-> progress])

\* The progress callback of uploadPart, first half: update the entry of the
\* part when uploadingParts.find has one, push a new entry otherwise.
Upsert(table, partNumber, progress) ==
    IF \E k \in 1..Len(table) : table[k].partNumber = partNumber
    THEN LET at == CHOOSE k \in 1..Len(table) :
                       /\ table[k].partNumber = partNumber
                       /\ \A m \in 1..(k - 1) : table[m].partNumber # partNumber
         IN  [table EXCEPT ![at].progress = progress]
    ELSE Append(table, [partNumber |-> partNumber, progress |-> progress])

\* ---- the double arithmetic of totalProgress ----
\* A progress is the double nearest to k / 100 (k its hundredths); the
\* aggregate is computed from the doubles `p.progress * 100`, which are not
\* always the integer k.  A double near an integer is written
\* [int |-> K, frac |-> f] for the value K + f * 2^-52.

\* The operations are functions, so that an argument is a value when the
\* body is evaluated.

Abs(x) == IF x < 0 THEN -x ELSE x

Pow2(e) == 2 ^ e

Doubles == [int : Nat, frac : Int]

Zero == [int |-> 0, frac |-> 0]

\* The entries of the progress table.
Entries == [partNumber : Nat, progress : Nat]

\* The binary exponent of k, 1 <= k < 2^20: the e with 2^e <= k < 2^(e+1).
Log2[k \in Nat] == CHOOSE e \in 0..19 : 2 ^ e <= k /\ k < 2 ^ (e + 1)

\* 2^s modulo 100: from s = 2 on the residues repeat with period 20.
PowMod100[s \in Nat] ==
    IF s < 2 THEN 2 ^ s ELSE (2 ^ (2 + ((s - 2) % 20))) % 100

\* f / u rounded to the nearest integer, a tie to the even one (the IEEE 754
\* rounding of every double operation).
RoundNearestEven[f \in Int, u \in Nat] ==
    LET q == Abs(f) \div u
        r == Abs(f) % u
        m == IF 2 * r < u THEN q
             ELSE IF 2 * r > u THEN q + 1
             ELSE IF q % 2 = 0 THEN q ELSE q + 1
    IN  IF f < 0 THEN -m ELSE m

\* The distance of k * 2^s to the nearest multiple of 100.
ToMultipleOf100[k \in Nat, s \in Nat] ==
    LET r == ((k % 100) * PowMod100[s]) % 100
    IN  IF r < 50 THEN -r ELSE 100 - r

\* The difference of the binary exponents of k and of k / 100: 6 or 7.
ExponentGap[k \in Nat] == IF 16 * k >= 25 * Pow2(Log2[k]) THEN 6 ELSE 7

\* `p.progress * 100` for the progress of k hundredths.  With e the exponent
\* of k and g the gap to the exponent of k / 100, the double k / 100 is
\* (k * 2^s + d) / (100 * 2^s) for s = 52 - e + g and d the distance of
\* k * 2^s to the nearest multiple of 100; its product with 100 is
\* k + (d / 2^g) ulp, which rounds to k or to a neighbour of k.
Times100[k \in Nat] ==
    IF k = 0 THEN Zero
    ELSE [int  |-> k,
          frac |-> RoundNearestEven[
                       ToMultipleOf100[k, 52 - Log2[k] + ExponentGap[k]],
                       Pow2(ExponentGap[k])] * Pow2(Log2[k])]

\* The double nearest to K + f * 2^-52, K >= 1: f rounded to the precision
\* of exponent E.
RoundToExponent[K \in Nat, f \in Int, E \in Nat] ==
    [int |-> K, frac |-> RoundNearestEven[f, Pow2(E)] * Pow2(E)]

\* a + b in doubles: the exact sum, rounded to the precision of its exponent.
DoubleAdd[a \in Doubles, b \in Doubles] ==
    IF a.int + b.int = 0 THEN Zero
    ELSE RoundToExponent[
             a.int + b.int,
             a.frac + b.frac,
             IF a.int + b.int < 2 THEN 0
             ELSE IF a.frac + b.frac >= 0 THEN Log2[a.int + b.int]
             ELSE Log2[a.int + b.int - 1]]

\* uploadingParts.reduce((acc, p) => acc + p.progress * 100, 0), from the
\* entry at index `from` on.
SumTimes100[table \in Seq(Entries), from \in Nat, acc \in Doubles] ==
    IF from > Len(table) THEN acc
    ELSE SumTimes100[table, from + 1,
                     DoubleAdd[acc, Times100[table[from].progress]]]

\* Math.round(a / n) for the double a: the quotient is within a rounding of
\* a.int / n, so only a tie (a.int / n = q + 0.5) depends on a.frac; the
\* quotient of a double below the tie is a double below q + 0.5 when the
\* deficit exceeds half the spacing of the doubles there.
MathRoundDiv[a \in Doubles, n \in Nat] ==
    LET q == a.int \div n
    IN  IF 2 * (a.int % n) # n THEN Round(a.int, n)
        ELSE IF a.frac >= 0 THEN q + 1
        ELSE IF q = 0 THEN (IF 8 * (-a.frac) > n THEN 0 ELSE 1)
        ELSE IF 2 * (-a.frac) > n * Pow2(Log2[q]) THEN q ELSE q + 1

\* Second half: totalProgress, in hundredths
\* (Math.round(sum(p.progress * 100) / totalParts) / 100).
TotalProgress(table, n) == MathRoundDiv[SumTimes100[table, 1, Zero], n]

\* The loadstart events of the parts in `started`, fired inside send() in
\* index order: each one upserts 0 for its part.
RECURSIVE LoadStarts(_, _, _)
LoadStarts(table, its, started) ==
    IF started = {} THEN table
    ELSE LET i == CHOOSE k \in started : \A m \in started : k <= m
         IN  LoadStarts(Upsert(table, its[i], 0), its, started \ {i})

\* The progress of part number p in the table (0 when it has no entry).
PartProgress(table, p) ==
    IF \E k \in 1..Len(table) : table[k].partNumber = p
    THEN (CHOOSE e \in Range(table) : e.partNumber = p).progress
    ELSE 0

UploadPartResultFirstAttempt(partNumber, attempt) ==
    [item |-> partNumber, attempt |-> 1]

\* What uploadPart returns: {partNumber, eTag}; the eTag is told apart by the
\* attempt that received it.
UploadPartResult(partNumber, attempt) == [item |-> partNumber, attempt |-> attempt]

SessionIdle ==
    /\ pc = "idle"
    /\ totalParts = 0
    /\ uploadingParts = <<>>
    /\ lastProgress = -1
    /\ completeCalls = 0
    /\ completedParts = <<>>
    /\ xhrStatus = "none"
    /\ fileSize = 0
    /\ partSize = 0
    /\ partJobs = <<>>

\* uploadFile is called: onProgressChange(0), then the /request-upload fetch.
UploadFile ==
    /\ pc = "idle"
    /\ pc' = "requesting"
    /\ lastProgress' = 0
    /\ UNCHANGED <<queueVars, gateVars, settleOrder, fileVars, xhrStatus,
                   totalParts, uploadingParts, completeCalls, completedParts>>

\* The catch block of uploadFile: onProgressChange(0), then rethrow.
CatchAndRethrow ==
    /\ pc' = "rejected"
    /\ lastProgress' = 0

\* The fetch or res.json() rejects, or the answer has neither `multipart`
\* nor `uploadUrl` (EdgeStoreError).
RequestUploadFails ==
    /\ pc = "requesting"
    /\ CatchAndRethrow
    /\ UNCHANGED <<queueVars, gateVars, settleOrder, fileVars, xhrStatus,
                   totalParts, uploadingParts, completeCalls, completedParts>>

\* The answer has `uploadUrl`: uploadFileInner sends the file; loadstart
\* fires inside send() and reports 0.
PlanSingle ==
    /\ pc = "requesting"
    /\ pc' = "single"
    /\ lastProgress' = 0
    /\ UNCHANGED <<queueVars, gateVars, settleOrder, fileVars, xhrStatus,
                   totalParts, uploadingParts, completeCalls, completedParts>>

\* Single part: a progress event of the transport.
SingleProgress ==
    /\ pc = "single"
    /\ \E p \in ProgressSteps : p > lastProgress /\ lastProgress' = p
    /\ UNCHANGED <<queueVars, gateVars, settleOrder, fileVars, xhrStatus, pc,
                   totalParts, uploadingParts, completeCalls, completedParts>>

\* Single part: the error or abort event rejects uploadFileInner.
SingleError ==
    /\ pc = "single"
    /\ CatchAndRethrow
    /\ UNCHANGED <<queueVars, gateVars, settleOrder, fileVars, xhrStatus,
                   totalParts, uploadingParts, completeCalls, completedParts>>

\* The statuses a response of the upload target may have.
ResponseStatuses == {"2xx", "other"}

\* Single part: the transfer ends with a response of either status; the
\* loadend listener does not read request.status, it resolves
\* uploadFileInner, and uploadFile returns the result.
SingleLoadEnd ==
    /\ pc = "single"
    /\ xhrStatus' \in ResponseStatuses
    /\ pc' = "resolved"
    /\ UNCHANGED <<queueVars, gateVars, settleOrder, fileVars, totalParts,
                   uploadingParts, lastProgress, completeCalls, completedParts>>

Min(a, b) == IF a <= b THEN a ELSE b

\* file.slice(start, end) for 0 <= start <= end: the bytes [start, end) that
\* the file has; both ends are clamped to the size.
Slice(size, start, end) == [from |-> Min(start, size), to |-> Min(end, size)]

PartJobZeroBased(partNumber, size, file) ==
    [part  |-> partNumber,
     chunk |-> Slice(file, partNumber * size, (partNumber + 1) * size)]

\* `{ part, chunk: file.slice((part.partNumber - 1) * partSize,
\*                            part.partNumber * partSize) }`.
PartJob(partNumber, size, file) ==
    [part  |-> partNumber,
     chunk |-> Slice(file, (partNumber - 1) * size, partNumber * size)]

\* The plans of n parts: the part numbers 1..n in any order.
Plans(n) == {plan \in [1..n -> 1..n] : \A k, m \in 1..n : plan[k] = plan[m] => k = m}

\* `parts.map((part) => ...)`: one PartJob per plan part, in plan order.
SliceParts(plan, size) ==
    /\ totalParts' = Len(plan)
    /\ partSize' = size
    /\ partJobs' = [k \in 1..Len(plan) |-> PartJob(plan[k], size, fileSize)]
    /\ UNCHANGED fileSize

\* The answer has `multipart`: multipartUpload calls queuedPromises with one
\* item per plan part; the parts that get a permit are sent at once and
\* their loadstart reports 0.  An item stands for its PartJob: the chunk is
\* a function of the part number (PartJob, SliceParts) and no step of the
\* session depends on it, so the session keeps fileVars as they are.
PlanMultipart ==
    /\ pc = "requesting"
    /\ \E n \in 1..MaxParts :
           LET its == [k \in 1..n |-> k]
               started == SyncStart(1, n, PartsMaxParallel).started
               table == LoadStarts(<<>>, its, started)
           IN  /\ QueuedPromisesCall(its, PartsMaxParallel, PartsMaxRetries)
               /\ totalParts' = n
               /\ uploadingParts' = table
               /\ lastProgress' = IF started = {} THEN lastProgress
                                  ELSE TotalProgress(table, n)
    /\ pc' = "multipart"
    /\ UNCHANGED <<gateVars, settleOrder, fileVars, xhrStatus, completeCalls,
                   completedParts>>

AfterPartSettledFinally ==
    IF callState = "pending" /\ callState' # "pending"
    THEN /\ pc' = "finalizing"
         /\ completeCalls' = completeCalls + 1
         /\ completedParts' = results'
         /\ UNCHANGED lastProgress
    ELSE UNCHANGED <<pc, lastProgress, completeCalls, completedParts>>

\* What follows a settlement of a part inside multipartUpload and
\* uploadFile: when queuedPromises resolves, the POST to
\* /complete-multipart-upload with the results; when it rejects, the catch
\* block of uploadFile; nothing once the session has settled.
AfterPartSettled ==
    IF callState = "pending" /\ callState' = "resolved"
    THEN /\ pc' = "finalizing"
         /\ completeCalls' = completeCalls + 1
         /\ completedParts' = results'
         /\ UNCHANGED lastProgress
    ELSE IF callState = "pending" /\ callState' = "rejected"
    THEN /\ CatchAndRethrow
         /\ UNCHANGED <<completeCalls, completedParts>>
    ELSE UNCHANGED <<pc, lastProgress, completeCalls, completedParts>>

\* A progress event of a part's transport: upsert, then report the total.
PartProgressEvent ==
    /\ \E i \in Tasks, p \in ProgressSteps :
           /\ status[i] = "running"
           /\ p > PartProgress(uploadingParts, items[i])
           /\ LET table == Upsert(uploadingParts, items[i], p)
              IN  /\ uploadingParts' = table
                  /\ lastProgress' = TotalProgress(table, totalParts)
    /\ UNCHANGED <<queueVars, gateVars, settleOrder, fileVars, xhrStatus, pc,
                   totalParts, completeCalls, completedParts>>

\* The error or abort event of a part's transport rejects uploadFileInner.
PartError ==
    /\ \E i \in Tasks : TaskFail(i, "TransferError")
    /\ AfterPartSettled
    /\ UNCHANGED <<gateVars, settleOrder, fileVars, xhrStatus, totalParts,
                   uploadingParts>>

\* loadend of a part's transport with an ETag header: uploadPart returns
\* {partNumber, eTag}.
PartLoadEnd ==
    /\ \E i \in Tasks : TaskSucceed(i, UploadPartResult(items[i], attempts[i]))
    /\ AfterPartSettled
    /\ UNCHANGED <<gateVars, settleOrder, fileVars, xhrStatus, totalParts,
                   uploadingParts>>

\* loadend of a part's transport without an ETag header: uploadPart throws
\* EdgeStoreError('Could not get ETag from multipart response').
PartLoadEndNoETag ==
    /\ \E i \in Tasks : TaskFail(i, "NoETag")
    /\ AfterPartSettled
    /\ UNCHANGED <<gateVars, settleOrder, fileVars, xhrStatus, totalParts,
                   uploadingParts>>

\* The backoff timer of a part fires: the part is sent again and its
\* loadstart reports 0.
PartRetry ==
    /\ \E i \in Tasks :
           /\ TaskRetry(i)
           /\ LET table == Upsert(uploadingParts, items[i], 0)
              IN  /\ uploadingParts' = table
                  /\ lastProgress' = TotalProgress(table, totalParts)
    /\ UNCHANGED <<gateVars, settleOrder, fileVars, xhrStatus, pc, totalParts,
                   completeCalls, completedParts>>

\* /complete-multipart-upload answers with res.ok.
CompleteOk ==
    /\ pc = "finalizing"
    /\ pc' = "resolved"
    /\ UNCHANGED <<queueVars, gateVars, settleOrder, fileVars, xhrStatus,
                   totalParts, uploadingParts, lastProgress, completeCalls,
                   completedParts>>

\* /complete-multipart-upload answers with another status, or the fetch
\* rejects.
CompleteFails ==
    /\ pc = "finalizing"
    /\ CatchAndRethrow
    /\ UNCHANGED <<queueVars, gateVars, settleOrder, fileVars, xhrStatus,
                   totalParts, uploadingParts, completeCalls, completedParts>>

\* ------------------------------------------------------------------------
\* createNextProxy: upload()
\* ------------------------------------------------------------------------

\* The condition of the polling loop:
\* `uploadingCountRef.current >= maxConcurrentUploads && uploadingCountRef.current > 0`.
GateClosed(count, limit) == count >= limit /\ count > 0

GateIdle ==
    /\ uploadingCount = 0
    /\ maxConcurrentUploads = 0
    /\ callPc = [c \in Calls |-> "idle"]
    /\ incs = [c \in Calls |-> 0]
    /\ decs = [c \in Calls |-> 0]

\* `uploadingCountRef.current++; return await uploadFile(...)`: the session
\* is admitted and issues its /request-upload.
Admit(c) ==
    /\ uploadingCount' = uploadingCount + 1
    /\ incs' = [incs EXCEPT ![c] = @ + 1]
    /\ callPc' = [callPc EXCEPT ![c] = "uploading"]
    /\ decs' = decs

\* `finally { uploadingCountRef.current--; }`.
Exit(c, outcome) ==
    /\ uploadingCount' = uploadingCount - 1
    /\ decs' = [decs EXCEPT ![c] = @ + 1]
    /\ callPc' = [callPc EXCEPT ![c] = outcome]
    /\ incs' = incs

\* upload() is called with an onProgressChange that returns: the callback
\* gets 0, then the call is admitted or starts polling.
UploadCall(c) ==
    /\ callPc[c] = "idle"
    /\ IF GateClosed(uploadingCount, maxConcurrentUploads)
       THEN /\ callPc' = [callPc EXCEPT ![c] = "polling"]
            /\ UNCHANGED <<uploadingCount, incs, decs>>
       ELSE Admit(c)
    /\ UNCHANGED maxConcurrentUploads

\* upload() is called with an onProgressChange that throws:
\* `params.onProgressChange?.(0)` is inside the try block, so the finally
\* block runs although the counter was not incremented.
UploadCallThrows(c) ==
    /\ callPc[c] = "idle"
    /\ Exit(c, "rejected")
    /\ UNCHANGED maxConcurrentUploads

\* The 300 ms timer of a polling call fires and the loop condition is false.
GatePoll(c) ==
    /\ callPc[c] = "polling"
    /\ ~GateClosed(uploadingCount, maxConcurrentUploads)
    /\ Admit(c)
    /\ UNCHANGED maxConcurrentUploads

\* uploadFile resolves.
UploadResolves(c) ==
    /\ callPc[c] = "uploading"
    /\ Exit(c, "resolved")
    /\ UNCHANGED maxConcurrentUploads

\* uploadFile rejects.
UploadRejects(c) ==
    /\ callPc[c] = "uploading"
    /\ Exit(c, "rejected")
    /\ UNCHANGED maxConcurrentUploads

\* ------------------------------------------------------------------------
\* Specifications
\* ------------------------------------------------------------------------

\* ---- the scheduler alone, with a work function that succeeds or fails ----

\* History: task i is appended to settleOrder in the step that settles it.
RecordSettled(i) ==
    settleOrder' = IF status'[i] \in {"done", "failed"}
                   THEN Append(settleOrder, i)
                   ELSE settleOrder

QCall ==
    /\ \E n \in 0..MaxItems, P \in 1..MaxParallelArg, R \in 0..MaxRetriesArg :
           QueuedPromisesCall([k \in 1..n |-> k], P, R)
    /\ UNCHANGED <<sessionVars, gateVars, settleOrder>>

QAcquire ==
    /\ \E i \in Tasks : TaskAcquire(i)
    /\ UNCHANGED <<sessionVars, gateVars, settleOrder>>

QFnResolve ==
    /\ \E i \in Tasks :
           TaskSucceed(i, FnResult(items[i], attempts[i])) /\ RecordSettled(i)
    /\ UNCHANGED <<sessionVars, gateVars>>

QFnReject ==
    /\ \E i \in Tasks : TaskFail(i, "Error") /\ RecordSettled(i)
    /\ UNCHANGED <<sessionVars, gateVars>>

QRetry ==
    /\ \E i \in Tasks : TaskRetry(i)
    /\ UNCHANGED <<sessionVars, gateVars, settleOrder>>

QueueInit == QueueIdle /\ SessionIdle /\ GateIdle /\ settleOrder = <<>>

QueueNext == QCall \/ QAcquire \/ QFnResolve \/ QFnReject \/ QRetry

QueueSpec == QueueInit /\ [][QueueNext]_vars

\* The same with fairness: every fn invocation settles, the 5000 ms backoff
\* timer fires, and the 500 ms timer of a task waiting for a permit is
\* re-armed until the task gets one.
QueueFairness ==
    \A i \in 1..MaxItems :
        /\ WF_vars((QFnResolve \/ QFnReject)
                       /\ i \in Tasks /\ status[i] = "running"
                       /\ status'[i] # "running")
        /\ WF_vars(QRetry /\ i \in Tasks /\ status[i] = "backoff"
                       /\ status'[i] = "running")
        /\ WF_vars(QAcquire /\ i \in Tasks /\ status[i] = "waiting"
                       /\ status'[i] = "running")

QueueFairSpec == QueueSpec /\ QueueFairness

\* ---- one upload session ----

Init == QueueIdle /\ SessionIdle /\ GateIdle /\ settleOrder = <<>>

\* A plan of at most MaxParts <= PartsMaxParallel parts leaves no part polling
\* for a permit, so no step of this specification is a TaskAcquire.
Next ==
    \/ UploadFile
    \/ RequestUploadFails
    \/ PlanSingle
    \/ SingleProgress
    \/ SingleError
    \/ SingleLoadEnd
    \/ PlanMultipart
    \/ PartProgressEvent
    \/ PartError
    \/ PartLoadEnd
    \/ PartLoadEndNoETag
    \/ PartRetry
    \/ CompleteOk
    \/ CompleteFails

Spec == Init /\ [][Next]_vars

\* The same with fairness: the transport of every part that was sent ends
\* (loadend, error or abort), the 5000 ms backoff timer of a part fires, and
\* the control plane answers.
SessionFairness ==
    /\ \A i \in 1..MaxParts :
           /\ WF_vars((PartLoadEnd \/ PartLoadEndNoETag \/ PartError)
                          /\ i \in Tasks /\ status[i] = "running"
                          /\ status'[i] # "running")
           /\ WF_vars(PartRetry /\ i \in Tasks /\ status[i] = "backoff"
                          /\ status'[i] = "running")
    /\ WF_vars(RequestUploadFails \/ PlanSingle \/ PlanMultipart)
    /\ WF_vars(SingleLoadEnd \/ SingleError)
    /\ WF_vars(CompleteOk \/ CompleteFails)

FairSpec == Spec /\ SessionFairness

\* ---- concurrent upload() calls ----

GateInit ==
    /\ QueueIdle
    /\ SessionIdle
    /\ settleOrder = <<>>
    /\ uploadingCount = 0
    /\ maxConcurrentUploads \in Limits
    /\ callPc = [c \in Calls |-> "idle"]
    /\ incs = [c \in Calls |-> 0]
    /\ decs = [c \in Calls |-> 0]

GUploadCall ==
    (\E c \in Calls : UploadCall(c)) /\ UNCHANGED <<queueVars, sessionVars,
                                                    settleOrder>>

GUploadCallThrows ==
    (\E c \in Calls : UploadCallThrows(c)) /\ UNCHANGED <<queueVars,
                                                          sessionVars,
                                                          settleOrder>>

GGatePoll ==
    (\E c \in Calls : GatePoll(c)) /\ UNCHANGED <<queueVars, sessionVars,
                                                  settleOrder>>

GUploadResolves ==
    (\E c \in Calls : UploadResolves(c)) /\ UNCHANGED <<queueVars,
                                                        sessionVars,
                                                        settleOrder>>

GUploadRejects ==
    (\E c \in Calls : UploadRejects(c)) /\ UNCHANGED <<queueVars, sessionVars,
                                                       settleOrder>>

GateNext ==
    GUploadCall \/ GUploadCallThrows \/ GGatePoll \/ GUploadResolves \/ GUploadRejects

GateSpec == GateInit /\ [][GateNext]_vars

\* The same with fairness: the 300 ms timer of a polling call is re-armed
\* until the call is admitted, and every admitted session exits.
GateFairness ==
    \A c \in Calls :
        /\ WF_vars(GatePoll(c) /\ UNCHANGED <<queueVars, sessionVars, settleOrder>>)
        /\ WF_vars((UploadResolves(c) \/ UploadRejects(c))
                       /\ UNCHANGED <<queueVars, sessionVars, settleOrder>>)

GateFairSpec == GateSpec /\ GateFairness

\* ---- the progress aggregator alone ----
\* A multipart transfer of totalParts parts whose progress callback receives
\* any sequence of (partNumber, percent) events.

AggInit ==
    /\ QueueIdle
    /\ GateIdle
    /\ settleOrder = <<>>
    /\ pc = "multipart"
    /\ totalParts \in 1..MaxAggParts
    /\ uploadingParts = <<>>
    /\ lastProgress = -1
    /\ completeCalls = 0
    /\ completedParts = <<>>
    /\ xhrStatus = "none"
    /\ fileSize = 0
    /\ partSize = 0
    /\ partJobs = <<>>

AggProgressEvent ==
    \E partNumber \in 1..totalParts, percent \in Percents :
        /\ LET table == Upsert(uploadingParts, partNumber, percent)
           IN  /\ uploadingParts' = table
               /\ lastProgress' = TotalProgress(table, totalParts)
        /\ UNCHANGED <<pc, totalParts, completeCalls, completedParts>>
        /\ UNCHANGED <<queueVars, gateVars, settleOrder, fileVars, xhrStatus>>

AggNext == AggProgressEvent

AggSpec == AggInit /\ [][AggNext]_vars

\* ---- the slicing alone ----
\* A file of any size up to MaxFileSize and any plan the control plane may
\* answer with.

SliceInit ==
    /\ QueueIdle
    /\ GateIdle
    /\ settleOrder = <<>>
    /\ pc = "requesting"
    /\ totalParts = 0
    /\ uploadingParts = <<>>
    /\ lastProgress = 0
    /\ completeCalls = 0
    /\ completedParts = <<>>
    /\ xhrStatus = "none"
    /\ fileSize \in 0..MaxFileSize
    /\ partSize = 0
    /\ partJobs = <<>>

SSliceParts ==
    /\ pc = "requesting"
    /\ partJobs = <<>>
    /\ \E n \in 1..MaxPlanParts, size \in 1..MaxPartSize :
           \E plan \in Plans(n) : SliceParts(plan, size)
    /\ UNCHANGED <<queueVars, gateVars, settleOrder, pc, uploadingParts,
                   lastProgress, completeCalls, completedParts, xhrStatus>>

SliceNext == SSliceParts

SliceSpec == SliceInit /\ [][SliceNext]_vars

\* ------------------------------------------------------------------------
\* Properties of queuedPromises (checked under QueueSpec)
\* ------------------------------------------------------------------------

\* The tasks whose fn invocation is in flight.
InFlight == {i \in Tasks : status[i] = "running"}

Failed == {i \in Tasks : status[i] = "failed"}

\* The error task i's last attempt threw.
ErrorOf(i) == [item |-> items[i], attempt |-> attempts[i], kind |-> error[i]]

\* The task that rejected first.
FirstFailed ==
    LET at == {k \in 1..Len(settleOrder) : settleOrder[k] \in Failed}
    IN  settleOrder[CHOOSE k \in at : \A m \in at : k <= m]

\* C2: for every maxParallel >= 1 the number of fn invocations in flight
\* inside one queuedPromises call never exceeds maxParallel, whatever the
\* interleaving of completions, failures and retries.
C2_ConcurrencyBound ==
    callState # "idle" => Cardinality(InFlight) <= maxParallel

\* C2 witness: the bound is reached while a task is still polling for a
\* permit and another one has already given its permit back.
C2_Witness ==
    /\ Cardinality(InFlight) = maxParallel
    /\ \E i \in Tasks : status[i] = "waiting"
    /\ \E i \in Tasks : status[i] \in {"done", "failed"}

\* C3: with retry budget R, fn is invoked at most R+1 times for an item and
\* every retry is an invocation for the task's own item; an item that failed
\* k times and then succeeded has k <= R, and an item makes the call reject
\* only after failing R+1 times.
C3_RetryBound ==
    \A i \in Tasks :
        /\ attempts[i] <= maxRetries + 1
        /\ status[i] \in {"running", "backoff"}
               => attempts[i] = (maxRetries - retries[i]) + 1
        /\ status[i] = "done"
               => /\ attempts[i] - 1 <= maxRetries
                  /\ results[i] = FnResult(items[i], attempts[i])
        /\ status[i] = "failed"
               => /\ attempts[i] = maxRetries + 1
                  /\ retries[i] = 0
                  /\ callState = "rejected"

\* C3 witness: with budget 2 one item failed exactly twice and then
\* succeeded, and another one failed three times.
C3_Witness ==
    /\ maxRetries = 2
    /\ \E i \in Tasks : status[i] = "done" /\ attempts[i] = 3
    /\ \E i \in Tasks : status[i] = "failed" /\ attempts[i] = 3

\* C4: when queuedPromises resolves, results has the length of items and
\* results[i] is the result of the successful invocation of fn(items[i]),
\* whatever the completion order and the mix of retries.
C4_IndexCorrespondence ==
    /\ callState = "resolved"
           => /\ Len(results) = Len(items)
              /\ \A i \in Tasks : results[i] = FnResult(items[i], attempts[i])
    /\ \A i \in DOMAIN results : results[i] # Empty => results[i].item = items[i]

\* C4 witness: the call resolved although the items completed in another
\* order than their index order and one of them needed a retry.
C4_Witness ==
    /\ callState = "resolved"
    /\ Len(items) >= 2
    /\ settleOrder[1] # 1
    /\ \E i \in Tasks : attempts[i] > 1
    /\ \E i \in Tasks : attempts[i] = 1

\* C5 (as claimed): whenever an item has failed all its attempts, the call
\* has rejected with that item's failure.
C5_RejectsWithThatFailure ==
    \A i \in Failed : callState = "rejected" /\ rejectReason = ErrorOf(i)

\* C5 (amended): whenever an item has failed all its attempts, the call has
\* rejected, with the failure of the item that exhausted its attempts first,
\* and it never resolves with a partially filled result list.
C5_RejectsWithFirstFailure ==
    /\ Failed # {} => callState = "rejected" /\ rejectReason = ErrorOf(FirstFailed)
    /\ callState = "resolved" => \A i \in Tasks : results[i] # Empty
    /\ callState = "rejected" => Failed # {}

\* C5 witness: one item failed all its attempts, every other item
\* succeeded, some before and some after it.
C5_Witness ==
    /\ Cardinality(Failed) = 1
    /\ Len(settleOrder) = 3
    /\ settleOrder[2] \in Failed
    /\ \A i \in Tasks \ Failed : status[i] = "done"

\* ------------------------------------------------------------------------
\* Properties of one upload session (checked under Spec)
\* ------------------------------------------------------------------------

\* C1: the POST to /complete-multipart-upload is issued only when every one
\* of the plan's totalParts parts has produced its completion token, one
\* CompletedPart per partNumber; once a part has failed all its attempts the
\* endpoint is never called, whatever the other parts do afterwards.
C1_CompletenessGate ==
    /\ completeCalls > 0
           => /\ Len(completedParts) = totalParts
              /\ \A i \in Tasks :
                     /\ status[i] = "done"
                     /\ completedParts[i] = UploadPartResult(items[i], attempts[i])
              /\ \A p \in 1..totalParts :
                     Cardinality({k \in 1..Len(completedParts) :
                                      completedParts[k].item = p}) = 1
    /\ Failed # {} => completeCalls = 0

\* C1 witness: the completion endpoint was called for a two-part plan one
\* of whose parts succeeded only on its last attempt.
C1_Witness ==
    /\ completeCalls = 1
    /\ totalParts = 2
    /\ \E i \in Tasks : attempts[i] = PartsMaxRetries + 1

\* C6 (as claimed): once uploadFile has rejected, the last value delivered
\* to onProgressChange is 0.
C6_FinalProgressZero == pc = "rejected" => lastProgress = 0

\* C10 (as claimed): a part transfer that ended without an ETag is not
\* retried: its failure is surfaced at once.
C10_TokenFailureNotRetried ==
    \A i \in Tasks : error[i] = "NoETag" => status[i] = "failed" /\ pc = "rejected"

\* C10 (amended): a part transfer that ended without an ETag is handled as
\* any failure of the part: with budget left the part waits for the backoff
\* and is sent again; the failure is surfaced only when the budget of
\* PartsMaxRetries retries is used up.
C10_TokenFailureRetried ==
    \A i \in Tasks :
        error[i] = "NoETag"
            => \/ /\ status[i] = "backoff"
                  /\ retries[i] > 0
                  /\ ENABLED TaskRetry(i)
               \/ /\ status[i] = "failed"
                  /\ retries[i] = 0
                  /\ attempts[i] = PartsMaxRetries + 1
                  /\ pc = "rejected"

\* C10 witness: a part that was already sent again ends without an ETag
\* once more and waits for its next attempt.
C10_Witness ==
    \E i \in Tasks : error[i] = "NoETag" /\ status[i] = "backoff" /\ attempts[i] >= 2

\* The tasks that hold a permit: between semaphore.wait and
\* semaphore.signal, the backoff included.
PermitHolders == {i \in Tasks : status[i] \in {"running", "backoff"}}

\* C16: semaphore.count plus the number of permit holders is maxParallel, so
\* 0 <= count <= maxParallel; a task takes its one permit when it leaves the
\* wait, keeps it over failed attempts and backoff, and gives it back in the
\* step in which it succeeds or exhausts its budget, after which it never
\* holds one again.
C16_PermitAccounting ==
    /\ [](callState # "idle" =>
              /\ semCount + Cardinality(PermitHolders) = maxParallel
              /\ semCount \in 0..maxParallel)
    /\ [][callState # "idle" =>
              \A i \in Tasks :
                  /\ status[i] \in {"running", "backoff"} =>
                         status'[i] \in {"running", "backoff", "done", "failed"}
                  /\ status[i] \in {"done", "failed"} => status'[i] = status[i]
                  /\ status[i] = "waiting" /\ status'[i] # "waiting" =>
                         /\ status'[i] = "running"
                         /\ attempts[i] = 0
                         /\ semCount' = semCount - 1
                  /\ status[i] \in {"running", "backoff"}
                         /\ status'[i] \in {"done", "failed"} =>
                         semCount' = semCount + 1]_vars

\* A task is in backoff and another one running while a third waits for a
\* permit: both permits are held, the count is 0.
C16_Witness ==
    /\ maxParallel = 2
    /\ semCount = 0
    /\ \E i, j, k \in Tasks :
           /\ status[i] = "backoff"
           /\ status[j] = "running" /\ attempts[j] >= 2
           /\ status[k] = "waiting"

\* C17: when every fn invocation settles, every item that waits for a permit
\* eventually gets one and runs, and a pending call eventually settles; it
\* has resolved only when every item is done and rejected only when an item
\* has failed, and it is not pending once every item has settled.
C17_CallSettles ==
    /\ \A i \in 1..MaxItems :
           (i \in Tasks /\ status[i] = "waiting")
               ~> (i \in Tasks /\ attempts[i] >= 1)
    /\ (callState = "pending") ~> (callState \in {"resolved", "rejected"})
    /\ [](/\ callState = "resolved" => \A i \in Tasks : status[i] = "done"
          /\ callState = "rejected" => Failed # {}
          /\ (\A i \in Tasks : status[i] \in {"done", "failed"}) =>
                 callState = IF callState = "idle" THEN "idle"
                             ELSE IF Failed = {} THEN "resolved"
                             ELSE "rejected")

\* Three items behind one permit have all run and settled, one of them
\* after the call had rejected.
C17_Witness ==
    /\ maxParallel = 1
    /\ Len(items) = 3
    /\ callState = "rejected"
    /\ \A i \in Tasks : status[i] \in {"done", "failed"}
    /\ status[1] = "failed"
    /\ status[3] = "done"

\* The bytes of the chunk of job k.
BytesOf(k) == {b \in 0..(fileSize - 1) :
                  partJobs[k].chunk.from <= b /\ b < partJobs[k].chunk.to}

\* C18: when the file size lies in ((totalParts - 1) * partSize,
\* totalParts * partSize], the plan's part numbers being 1..totalParts, there
\* is one PartJob per plan part, the chunk of part n is
\* [(n - 1) * partSize, min(n * partSize, size)), every byte of the file is
\* in exactly one chunk, and every chunk but the one of the last part has
\* partSize bytes (the last one between 1 and partSize).
C18_SlicesPartitionFile ==
    (/\ partJobs # <<>>
     /\ (totalParts - 1) * partSize < fileSize
     /\ fileSize <= totalParts * partSize) =>
        /\ Len(partJobs) = totalParts
        /\ \A n \in 1..totalParts :
               Cardinality({k \in 1..Len(partJobs) : partJobs[k].part = n}) = 1
        /\ \A k \in 1..Len(partJobs) :
               LET n == partJobs[k].part
               IN  /\ partJobs[k].chunk.from = (n - 1) * partSize
                   /\ partJobs[k].chunk.to = Min(n * partSize, fileSize)
                   /\ Cardinality(BytesOf(k)) =
                          IF n < totalParts THEN partSize
                          ELSE fileSize - (totalParts - 1) * partSize
                   /\ Cardinality(BytesOf(k)) \in 1..partSize
        /\ \A b \in 0..(fileSize - 1) :
               Cardinality({k \in 1..Len(partJobs) : b \in BytesOf(k)}) = 1

\* A file of 5 bytes sliced for a plan of three parts of 2 bytes that lists
\* the last part first: its chunk is the one short chunk.
C18_Witness ==
    /\ fileSize = 5
    /\ partSize = 2
    /\ totalParts = 3
    /\ Len(partJobs) = 3
    /\ partJobs[1].part = 3
    /\ partJobs[1].chunk = [from |-> 4, to |-> 5]

\* C19 (as claimed): once the call has rejected no fn invocation is started:
\* a waiting item never begins and an item in backoff makes no further
\* attempt.
C19_NoInvocationAfterReject ==
    [][callState = "rejected" => attempts' = attempts]_vars

\* C19 (amended): the rejection is final (the call stays rejected with the
\* same error) but stops nothing: every item still gets its permit, is
\* invoked and retried, until each one is done or has exhausted its budget.
C19_ItemsRunOnAfterReject ==
    /\ [][callState = "rejected" =>
              callState' = "rejected" /\ rejectReason' = rejectReason]_vars
    /\ (callState = "rejected")
           ~> (\A i \in Tasks : status[i] \in {"done", "failed"})

\* The call has rejected with the failure of item 1, the only permit went
\* to item 2 afterwards, and item 2 is at its second attempt.
C19_Witness ==
    /\ callState = "rejected"
    /\ maxParallel = 1
    /\ Len(items) >= 2
    /\ status[1] = "failed"
    /\ status[2] = "running"
    /\ attempts[2] = 2

\* C11 (as claimed): during a multipart transfer the progress the
\* aggregator holds for a part never decreases, and so the aggregate passed
\* to onProgressChange never decreases.
C11_ProgressNonDecreasing ==
    [][totalParts > 0 =>
           /\ \A p \in 1..totalParts :
                  PartProgress(uploadingParts', p) >= PartProgress(uploadingParts, p)
           /\ TotalProgress(uploadingParts', totalParts)
                  >= TotalProgress(uploadingParts, totalParts)]_vars

\* C12 (as claimed): after each part-progress event the value passed to
\* onProgressChange is the sum of the last-known percents of all parts
\* (0 for a part that has not reported) divided by totalParts and rounded to
\* 2 decimals, as Math.round computes it on the integer hundredths.
C12_AggregateOfHundredths ==
    lastProgress # -1 =>
        lastProgress = Round(SumProgress(uploadingParts), totalParts)

\* C13: during a multipart transfer the progress table holds exactly one
\* entry for every part that has been sent (a retried part included) and none
\* for any other part number, and every value passed to onProgressChange
\* lies in [0, 100].
C13_OneEntryPerPart ==
    /\ \A k, m \in 1..Len(uploadingParts) :
           uploadingParts[k].partNumber = uploadingParts[m].partNumber => k = m
    /\ \A k \in 1..Len(uploadingParts) :
           /\ uploadingParts[k].partNumber \in 1..totalParts
           /\ uploadingParts[k].progress \in 0..10000
    /\ \A i \in Tasks :
           attempts[i] > 0 =>
               \E k \in 1..Len(uploadingParts) : uploadingParts[k].partNumber = items[i]
    /\ lastProgress \in -1..10000

\* A part was sent a second time while both parts of the plan have their
\* entry and a total above 0 was reported.
C13_Witness ==
    /\ pc = "multipart"
    /\ totalParts = 2
    /\ Len(uploadingParts) = 2
    /\ \E i \in Tasks : attempts[i] >= 2 /\ status[i] = "running"
    /\ lastProgress > 0

\* C15: in a multipart transfer /complete-multipart-upload is called at most
\* once and only when every part is done; its payload has one entry per plan
\* part, in plan order, with the token of the part's successful attempt;
\* the session resolves only from the answer to that call; and a transfer
\* whose parts all succeed within the budget (queuedPromises never rejects)
\* eventually makes the call.
C15_FinalizeAfterAllParts ==
    /\ [](totalParts > 0 =>
              /\ completeCalls <= 1
              /\ pc \in {"finalizing", "resolved"} => completeCalls = 1
              /\ completeCalls = 1 =>
                     /\ \A i \in Tasks : status[i] = "done"
                     /\ Len(completedParts) = totalParts
                     /\ \A k \in 1..totalParts :
                            /\ completedParts[k].item = items[k]
                            /\ completedParts[k].attempt = attempts[k])
    /\ [][totalParts > 0 /\ pc' = "resolved" /\ pc # "resolved"
              => pc = "finalizing" /\ completeCalls = 1]_vars
    /\ (pc = "multipart") ~> (completeCalls = 1 \/ callState = "rejected")

\* A transfer of two parts resolved after one call to the completion
\* endpoint, one of the parts having succeeded at a later attempt.
C15_Witness ==
    /\ pc = "resolved"
    /\ totalParts = 2
    /\ completeCalls = 1
    /\ \E i \in Tasks : attempts[i] >= 2

\* C20 (as claimed): on the single-part path a transfer that ends with a
\* response that is not a success makes the session reject, with the
\* progress reset to 0.
C20_FailedResponseRejects ==
    [][xhrStatus = "none" /\ xhrStatus' = "other"
           => pc' = "rejected" /\ lastProgress' = 0]_vars

\* ------------------------------------------------------------------------
\* Properties of the admission gate (checked under GateSpec)
\* ------------------------------------------------------------------------

\* The sessions that issued their /request-upload and have not exited.
Admitted == {c \in Calls : callPc[c] = "uploading"}

Settled == {c \in Calls : callPc[c] \in {"resolved", "rejected"}}

\* C7 (as claimed): with a limit >= 1 the number of sessions admitted and not
\* yet exited never exceeds maxConcurrentUploads.
C7_AdmissionBound ==
    maxConcurrentUploads >= 1 => Cardinality(Admitted) <= maxConcurrentUploads

\* C8 (as claimed): uploadingCountRef.current is never negative.
C8_CounterNonNegative == uploadingCount >= 0

\* C9 (as claimed): every call increments the counter once, at admission,
\* and decrements it once, at exit; the counter is the number of sessions
\* admitted and not yet exited, and 0 again once every call has settled.
C9_CounterBalanced ==
    /\ \A c \in Calls :
           /\ incs[c] = IF c \in Admitted \cup Settled THEN 1 ELSE 0
           /\ decs[c] = IF c \in Settled THEN 1 ELSE 0
    /\ uploadingCount = Cardinality(Admitted)
    /\ Settled = Calls => uploadingCount = 0

\* C14, no deadlock: whatever the limit, a call that polls at the gate is
\* eventually admitted when every admitted session exits.
C14_EventuallyAdmitted ==
    \A c \in Calls : (callPc[c] = "polling") ~> (c \in Admitted \cup Settled)

\* C14 (as claimed), one at a time: with a limit <= 0 at most one session is
\* admitted and not yet exited.
C14_OneAtATime ==
    maxConcurrentUploads <= 0 => Cardinality(Admitted) <= 1

====
